---- MODULE Spec2Model ----
(***************************************************************************)
(* A model of rust-firmware-common: the firmware version and edition       *)
(* parsers, the Firmware descriptor, the BinaryFirmware ordering and the   *)
(* ResultResponse envelope.  Strings are sequences of one-character        *)
(* strings, so that trimming, splitting, parsing and formatting are        *)
(* computed character by character as the code computes them.              *)
(***************************************************************************)
EXTENDS Integers, Sequences, FiniteSets, TLC

VARIABLES
    token,          \* the &str handed to FirmwareVersion::parse_subversion
    subversion,     \* what parse_subversion returned for it
    version_text,   \* the &str handed to FirmwareVersion::from_str
    version,        \* what from_str returned for it
    version_shown,  \* what Display wrote for the parsed version
    edition_text,   \* the &str handed to FirmwareEdition::from_str
    edition,        \* what from_str returned for it
    edition_shown,  \* what Display wrote for the parsed edition
    args,           \* the five arguments of Firmware::from
    firmware,       \* the Option<Firmware> the program holds
    firmware_copy,  \* a clone of it
    records,        \* a Vec<BinaryFirmware>
    sorted,         \* the Vec after sort()
    response,       \* the body handed to ResultResponse::new
    result,         \* the outcome of ResultResponse::new
    observed        \* what an accessor of the ResultResponse returned

vars == <<token, subversion, version_text, version, version_shown,
          edition_text, edition, edition_shown, args, firmware, firmware_copy,
          records, sorted, response, result, observed>>

versionVars  == <<version_text, version, version_shown>>
tokenVars    == <<token, subversion>>
editionVars  == <<edition_text, edition, edition_shown>>
firmwareVars == <<args, firmware, firmware_copy>>
binaryVars   == <<records, sorted>>
resultVars   == <<response, result, observed>>

(***************************************************************************)
(* Bounds of the model.                                                    *)
(***************************************************************************)
MaxTokenLen == 3    \* longest token handed to parse_subversion
MaxTextLen == 6     \* longest version string handed to from_str
MaxEditionLen == 5  \* longest enumerated edition string handed to from_str
MaxSize == 2        \* largest firmware size handed to Firmware::from
MaxRecords == 3     \* longest Vec<BinaryFirmware>
MaxTick == 2        \* timestamps run from -100 to 100 * MaxTick

(***************************************************************************)
(* Values shared by the components.                                        *)
(***************************************************************************)
NotCalled == [called |-> FALSE]
None == [some |-> FALSE]
Some(v) == [some |-> TRUE, val |-> v]
Ok(v) == [ok |-> TRUE, val |-> v]
Err(e) == [ok |-> FALSE, err |-> e]
Returned(v) == [called |-> TRUE, ret |-> v]

StringsUpTo(chars, n) == UNION {[1..k -> chars] : k \in 0..n}

Digits == <<"0", "1", "2", "3", "4", "5", "6", "7", "8", "9">>
DigitChars == {Digits[i] : i \in 1..10}
Whitespace == {" ", "\t", "\n"}

\* char::is_ascii_digit
is_ascii_digit(c) == c \in DigitChars

\* The numeric value of a decimal digit character.
to_digit(c) == CHOOSE d \in 0..9 : Digits[d + 1] = c

\* `char as u8` for an ASCII digit: its code point, '0' = 48.
AsciiZero == 48
char_as_u8(c) == AsciiZero + to_digit(c)

U8Max == 255

RECURSIVE digits_value(_)
digits_value(s) ==
    IF s = <<>> THEN 0
    ELSE 10 * digits_value(SubSeq(s, 1, Len(s) - 1)) + to_digit(s[Len(s)])

\* str::parse::<u8>: an optional leading '+', then one or more decimal
\* digits, and the value must fit in eight bits.
parse_u8(s) ==
    IF s = <<>> THEN None
    ELSE IF s = <<"+">> \/ s = <<"-">> THEN None
    ELSE LET digits == IF s[1] = "+" THEN Tail(s) ELSE s
         IN  IF \A i \in 1..Len(digits) : is_ascii_digit(digits[i])
             THEN IF digits_value(digits) > U8Max THEN None
                  ELSE Some(digits_value(digits))
             ELSE None

\* str::trim
RECURSIVE trim_start(_)
trim_start(s) ==
    IF s # <<>> /\ s[1] \in Whitespace THEN trim_start(Tail(s)) ELSE s

RECURSIVE trim_end(_)
trim_end(s) ==
    IF s # <<>> /\ s[Len(s)] \in Whitespace
    THEN trim_end(SubSeq(s, 1, Len(s) - 1)) ELSE s

trim(s) == trim_end(trim_start(s))

\* str::split('.').collect(): the empty string splits into one empty part.
RECURSIVE split(_, _)
split(s, sep) ==
    IF \A i \in 1..Len(s) : s[i] # sep THEN <<s>>
    ELSE LET i == CHOOSE k \in 1..Len(s) :
                      s[k] = sep /\ \A j \in 1..(k - 1) : s[j] # sep
         IN  <<SubSeq(s, 1, i - 1)>> \o split(SubSeq(s, i + 1, Len(s)), sep)

\* Display of a u8: decimal, no padding.
RECURSIVE fmt_u8(_)
fmt_u8(n) ==
    IF n < 10 THEN <<Digits[n + 1]>>
    ELSE fmt_u8(n \div 10) \o <<Digits[(n % 10) + 1]>>

(***************************************************************************)
(* FirmwareVersion                                                         *)
(***************************************************************************)
FirmwareVersion(major, minor, patch) ==
    [major |-> major, minor |-> minor, patch |-> patch]

parse_subversion(s) ==
    IF Len(s) = 1 THEN parse_u8(s)
    ELSE IF Len(s) = 2
         THEN IF s[1] = "0" /\ is_ascii_digit(s[2])
              THEN Some(char_as_u8(s[2]))
              ELSE parse_u8(s)
         ELSE None

\* A slip that accepts any string of at least three parts.
parse_at_least_three(text) ==
    LET arguments == split(trim(text), ".")
    IN  IF Len(arguments) < 3 THEN Err("UnmatchedSubversionError")
        ELSE LET major == parse_subversion(arguments[1])
                 minor == parse_subversion(arguments[2])
                 patch == parse_subversion(arguments[3])
             IN  IF ~major.some \/ ~minor.some \/ ~patch.some
                 THEN Err("InvalidSubversionFormatError")
                 ELSE Ok(FirmwareVersion(major.val, minor.val, patch.val))

parse(text) ==
    LET arguments == split(trim(text), ".")
    IN  IF Len(arguments) # 3 THEN Err("UnmatchedSubversionError")
        ELSE LET major == parse_subversion(arguments[1])
                 minor == parse_subversion(arguments[2])
                 patch == parse_subversion(arguments[3])
             IN  IF ~major.some \/ ~minor.some \/ ~patch.some
                 THEN Err("InvalidSubversionFormatError")
                 ELSE Ok(FirmwareVersion(major.val, minor.val, patch.val))

FirmwareVersion_from_str(s) == parse(s)

\* A slip that pads each component to two digits, "{:02}".
RECURSIVE fmt_u8_padded(_)
fmt_u8_padded(n) == IF n < 10 THEN <<"0">> \o fmt_u8(n) ELSE fmt_u8(n)

FirmwareVersion_fmt_padded(v) ==
    fmt_u8_padded(v.major) \o <<".">> \o fmt_u8_padded(v.minor) \o <<".">>
        \o fmt_u8_padded(v.patch)

FirmwareVersion_fmt(v) ==
    fmt_u8(v.major) \o <<".">> \o fmt_u8(v.minor) \o <<".">> \o fmt_u8(v.patch)

\* Tokens handed to parse_subversion: every string of up to MaxTokenLen
\* characters over the digits, two signs, a letter and a space.
TokenChars == DigitChars \cup {"+", "-", "a", " "}
Tokens == StringsUpTo(TokenChars, MaxTokenLen)

\* Version strings handed to from_str: every string of up to MaxTextLen
\* characters over three digits, a sign, a letter, a space and the dot, and
\* every three-token string whose tokens are one or two of four digits.
VersionChars == {"0", "1", "5", "+", "a", " ", "."}
TripleTokens == StringsUpTo({"0", "1", "5", "9"}, 2) \ {<<>>}
VersionTexts ==
    StringsUpTo(VersionChars, MaxTextLen) \cup
    {a \o <<".">> \o b \o <<".">> \o c : a, b, c \in TripleTokens}

ParseSubversion ==
    /\ ~subversion.called
    /\ subversion' = Returned(parse_subversion(token))
    /\ UNCHANGED <<token, versionVars, editionVars, firmwareVars, binaryVars,
                   resultVars>>

VersionFromStr ==
    /\ ~version.called
    /\ version' = Returned(FirmwareVersion_from_str(version_text))
    /\ UNCHANGED <<version_text, version_shown, tokenVars, editionVars,
                   firmwareVars, binaryVars, resultVars>>

VersionDisplay ==
    /\ version.called /\ version.ret.ok
    /\ ~version_shown.called
    /\ version_shown' = Returned(FirmwareVersion_fmt(version.ret.val))
    /\ UNCHANGED <<version_text, version, tokenVars, editionVars,
                   firmwareVars, binaryVars, resultVars>>

IdleToken == token = <<>> /\ subversion = NotCalled
IdleVersion ==
    version_text = <<>> /\ version = NotCalled /\ version_shown = NotCalled
IdleEdition ==
    edition_text = <<>> /\ edition = NotCalled /\ edition_shown = NotCalled
IdleFirmware == args = <<>> /\ firmware = NotCalled /\ firmware_copy = NotCalled
IdleBinary == records = <<>> /\ sorted = NotCalled
IdleResult == response = <<>> /\ result = NotCalled /\ observed = NotCalled

InitSubversion ==
    /\ token \in Tokens
    /\ subversion = NotCalled
    /\ IdleVersion /\ IdleEdition /\ IdleFirmware /\ IdleBinary /\ IdleResult

NextSubversion == ParseSubversion

SpecSubversion == InitSubversion /\ [][NextSubversion]_vars

InitVersion ==
    /\ version_text \in VersionTexts
    /\ version = NotCalled
    /\ version_shown = NotCalled
    /\ IdleToken /\ IdleEdition /\ IdleFirmware /\ IdleBinary /\ IdleResult

NextVersion == VersionFromStr \/ VersionDisplay

SpecVersion == InitVersion /\ [][NextVersion]_vars

(***************************************************************************)
(* Claims about FirmwareVersion.                                           *)
(***************************************************************************)

\* The parts of a string, read off the positions of its dots: part k lies
\* between the (k-1)-th and the k-th dot.
DotsOf(s) == {i \in 1..Len(s) : s[i] = "."}
NthDot(s, k) ==
    IF k = 0 THEN 0
    ELSE IF k > Cardinality(DotsOf(s)) THEN Len(s) + 1
    ELSE CHOOSE i \in DotsOf(s) : Cardinality({j \in DotsOf(s) : j <= i}) = k
PartsOf(s) ==
    [k \in 1..(Cardinality(DotsOf(s)) + 1) |->
        SubSeq(s, NthDot(s, k - 1) + 1, NthDot(s, k) - 1)]

\* A string without its surrounding whitespace, read off the positions of
\* its first and last non-whitespace characters.
Inner(s) ==
    LET solid == {i \in 1..Len(s) : s[i] \notin Whitespace}
    IN  IF solid = {} THEN <<>>
        ELSE SubSeq(s, CHOOSE i \in solid : \A j \in solid : i <= j,
                       CHOOSE i \in solid : \A j \in solid : j <= i)

AllDigits(s) == \A i \in 1..Len(s) : s[i] \in DigitChars

\* The value the subversion rule gives a token, None when it is invalid.
RuleSubversion(s) ==
    IF Len(s) = 1 /\ AllDigits(s) THEN Some(to_digit(s[1]))
    ELSE IF Len(s) = 2 /\ AllDigits(s)
         THEN IF s[1] = "0" THEN Some(48 + to_digit(s[2]))
              ELSE Some(10 * to_digit(s[1]) + to_digit(s[2]))
    ELSE None

\* C1: for every token, parse_subversion follows the stated rule: one digit
\* gives its value, "0d" gives the code point of d, two digits not starting
\* with '0' give the two-digit number, and every other token (another
\* length, or any non-digit character such as a sign) is invalid.
C1_SubversionRule ==
    subversion.called => subversion.ret = RuleSubversion(token)

\* C2: a version string whose trimmed form does not have exactly three
\* '.'-separated parts fails with UnmatchedSubversionError whatever the
\* parts are; with exactly three parts it fails with
\* InvalidSubversionFormatError when a part is an invalid subversion, and
\* otherwise succeeds with major, minor, patch taken from the parts in order.
C2_ParseOutcome ==
    version.called =>
        LET parts == PartsOf(Inner(version_text))
        IN  IF Len(parts) # 3
            THEN version.ret = Err("UnmatchedSubversionError")
            ELSE IF \E k \in 1..3 : ~parse_subversion(parts[k]).some
            THEN version.ret = Err("InvalidSubversionFormatError")
            ELSE /\ version.ret.ok
                 /\ version.ret.val.major = parse_subversion(parts[1]).val
                 /\ version.ret.val.minor = parse_subversion(parts[2]).val
                 /\ version.ret.val.patch = parse_subversion(parts[3]).val

\* A padded string of four parts, one of them malformed, was rejected for
\* its number of parts.
C2_Witness ==
    /\ version.called
    /\ version_text # Inner(version_text)
    /\ Len(PartsOf(Inner(version_text))) = 4
    /\ \E k \in 1..4 : ~parse_subversion(PartsOf(Inner(version_text))[k]).some
    /\ version.ret = Err("UnmatchedSubversionError")

\* A string of exactly three tokens, each of one or two decimal digits.
IsDigitTriple(s) ==
    /\ Len(PartsOf(s)) = 3
    /\ \A k \in 1..3 : Len(PartsOf(s)[k]) \in {1, 2} /\ AllDigits(PartsOf(s)[k])

\* A decimal numeral of n without zero-padding.
IsPlainDecimal(s, n) ==
    /\ s # <<>>
    /\ AllDigits(s)
    /\ (Len(s) > 1 => s[1] # "0")
    /\ digits_value(s) = n

\* C7: every string of three '.'-separated tokens of one or two decimal
\* digits parses; the displayed form of the result is its three components
\* in decimal without zero-padding joined by '.', and parsing the displayed
\* form yields the same major, minor, patch.
C7_DisplayRoundTrip ==
    (version.called /\ IsDigitTriple(version_text)) =>
        /\ version.ret.ok
        /\ version_shown.called =>
              LET shown == version_shown.ret
                  v == version.ret.val
              IN  /\ Len(PartsOf(shown)) = 3
                  /\ IsPlainDecimal(PartsOf(shown)[1], v.major)
                  /\ IsPlainDecimal(PartsOf(shown)[2], v.minor)
                  /\ IsPlainDecimal(PartsOf(shown)[3], v.patch)
                  /\ FirmwareVersion_from_str(shown) = Ok(v)

\* "1.05.1" was parsed to {1, 53, 1} and displayed as "1.53.1".
C7_Witness ==
    /\ version_text = <<"1", ".", "0", "5", ".", "1">>
    /\ version.called
    /\ version.ret = Ok(FirmwareVersion(1, 53, 1))
    /\ version_shown.called
    /\ version_shown.ret = <<"1", ".", "5", "3", ".", "1">>

(***************************************************************************)
(* FirmwareEdition                                                         *)
(***************************************************************************)
STANDARD == <<"S", "T", "A", "N", "D", "A", "R", "D">>
PLUS == <<"P", "L", "U", "S">>
PREMIUM == <<"P", "R", "E", "M", "I", "U", "M">>
Standard_ == <<"S", "t", "a", "n", "d", "a", "r", "d">>
Plus_ == <<"P", "l", "u", "s">>
Premium_ == <<"P", "r", "e", "m", "i", "u", "m">>

\* A slip that trims the input before matching it.
FirmwareEdition_from_str_trimmed(input) ==
    CASE trim(input) = STANDARD -> Ok("Standard")
      [] trim(input) = PLUS -> Ok("Plus")
      [] trim(input) = PREMIUM -> Ok("Premium")
      [] trim(input) = Standard_ -> Ok("Standard")
      [] trim(input) = Plus_ -> Ok("Plus")
      [] trim(input) = Premium_ -> Ok("Premium")
      [] OTHER -> Err("ParseEditionError")

FirmwareEdition_from_str(input) ==
    CASE input = STANDARD -> Ok("Standard")
      [] input = PLUS -> Ok("Plus")
      [] input = PREMIUM -> Ok("Premium")
      [] input = Standard_ -> Ok("Standard")
      [] input = Plus_ -> Ok("Plus")
      [] input = Premium_ -> Ok("Premium")
      [] OTHER -> Err("ParseEditionError")

FirmwareEdition_fmt(e) ==
    CASE e = "Standard" -> STANDARD
      [] e = "Plus" -> PLUS
      [] e = "Premium" -> PREMIUM

\* Edition strings handed to from_str: every short string over the letters
\* of "PLUS" in both cases and a space, and the longer tokens with their
\* near misses.
EditionChars == {"P", "L", "U", "S", "l", "u", "s", " "}
EditionTexts ==
    StringsUpTo(EditionChars, MaxEditionLen) \cup
    { STANDARD, Standard_, PREMIUM, Premium_,
      <<"s", "t", "a", "n", "d", "a", "r", "d">>,
      <<"p", "r", "e", "m", "i", "u", "m">>,
      <<"P", "R", "e", "m", "i", "u", "m">>,
      STANDARD \o <<" ">>, <<" ">> \o Premium_, PREMIUM \o <<"\n">>,
      PREMIUM \o <<"S">>, <<"P", "R", "E", "M">> }

EditionFromStr ==
    /\ ~edition.called
    /\ edition' = Returned(FirmwareEdition_from_str(edition_text))
    /\ UNCHANGED <<edition_text, edition_shown, tokenVars, versionVars,
                   firmwareVars, binaryVars, resultVars>>

EditionDisplay ==
    /\ edition.called /\ edition.ret.ok
    /\ ~edition_shown.called
    /\ edition_shown' = Returned(FirmwareEdition_fmt(edition.ret.val))
    /\ UNCHANGED <<edition_text, edition, tokenVars, versionVars,
                   firmwareVars, binaryVars, resultVars>>

InitEdition ==
    /\ edition_text \in EditionTexts
    /\ edition = NotCalled
    /\ edition_shown = NotCalled
    /\ IdleToken /\ IdleVersion /\ IdleFirmware /\ IdleBinary /\ IdleResult

NextEdition == EditionFromStr \/ EditionDisplay

SpecEdition == InitEdition /\ [][NextEdition]_vars

(***************************************************************************)
(* Claims about FirmwareEdition.                                           *)
(***************************************************************************)

\* C6: the edition parser accepts exactly "STANDARD", "Standard", "PLUS",
\* "Plus", "PREMIUM", "Premium" (case-sensitive, untrimmed), maps them to
\* Standard, Plus, Premium, and fails with ParseEditionError on every other
\* string; Display writes the uppercase token of the edition, and parsing
\* the displayed form yields the edition again.
C6_EditionTokens ==
    /\ edition.called =>
          /\ edition_text \in {STANDARD, Standard_} <=> edition.ret = Ok("Standard")
          /\ edition_text \in {PLUS, Plus_} <=> edition.ret = Ok("Plus")
          /\ edition_text \in {PREMIUM, Premium_} <=> edition.ret = Ok("Premium")
          /\ edition_text \notin
                {STANDARD, Standard_, PLUS, Plus_, PREMIUM, Premium_}
                <=> edition.ret = Err("ParseEditionError")
    /\ edition_shown.called =>
          /\ edition.ret.val = "Standard" => edition_shown.ret = STANDARD
          /\ edition.ret.val = "Plus" => edition_shown.ret = PLUS
          /\ edition.ret.val = "Premium" => edition_shown.ret = PREMIUM
          /\ FirmwareEdition_from_str(edition_shown.ret) = Ok(edition.ret.val)

\* "Premium" was parsed to Premium and displayed as "PREMIUM".
C6_Witness ==
    /\ edition_text = Premium_
    /\ edition.called /\ edition.ret = Ok("Premium")
    /\ edition_shown.called /\ edition_shown.ret = PREMIUM

(***************************************************************************)
(* Firmware                                                                *)
(***************************************************************************)

\* DateTime::parse_from_rfc3339 on the compile-time strings the model hands
\* in: the seconds since the epoch of the local reading and its offset.
parse_from_rfc3339(text) ==
    CASE text = "2024-01-01T00:00:00Z" ->
            Ok([local |-> 1704067200, offset |-> 0])
      [] text = "2024-01-01T02:00:00+02:00" ->
            Ok([local |-> 1704074400, offset |-> 7200])
      [] OTHER -> Err("ParseError")

\* DateTime::to_utc: the same instant, in UTC.
to_utc(datetime) == datetime.local - datetime.offset

Firmware(serial_number, size, compile_time, ed, ver) ==
    [serial_number |-> serial_number, size |-> size,
     compile_time |-> compile_time, edition |-> ed, version |-> ver]

\* A slip that leaves out the check of the size.
Firmware_from_any_size(a) ==
    IF a.serial_number = <<>> THEN None
    ELSE LET compile_time == parse_from_rfc3339(a.compile_time)
         IN  IF ~compile_time.ok THEN None
         ELSE LET ed == FirmwareEdition_from_str(a.edition)
              IN  IF ~ed.ok THEN None
         ELSE LET ver == FirmwareVersion_from_str(a.version)
              IN  IF ~ver.ok THEN None
         ELSE Some(Firmware(a.serial_number, a.size, to_utc(compile_time.val),
                            ed.val, ver.val))

Firmware_from(a) ==
    IF a.serial_number = <<>> THEN None
    ELSE IF a.size = 0 THEN None
    ELSE LET compile_time == parse_from_rfc3339(a.compile_time)
         IN  IF ~compile_time.ok THEN None
         ELSE LET ed == FirmwareEdition_from_str(a.edition)
              IN  IF ~ed.ok THEN None
         ELSE LET ver == FirmwareVersion_from_str(a.version)
              IN  IF ~ver.ok THEN None
         ELSE Some(Firmware(a.serial_number, a.size, to_utc(compile_time.val),
                            ed.val, ver.val))

\* #[derive(Default)]: every field takes its type's default.
Firmware_default ==
    Firmware(<<>>, 0, 0, "Standard", FirmwareVersion(0, 0, 0))

\* #[derive(Clone)]
Firmware_clone(f) == f

SerialNumbers == {<<>>, <<"A">>, <<"S", "N", "1">>}
Sizes == 0..MaxSize
CompileTimes ==
    {"2024-01-01T00:00:00Z", "2024-01-01T02:00:00+02:00", "2024-01-01", ""}
ArgEditions == {PLUS, Premium_, <<"p", "l", "u", "s">>, <<>>}
ArgVersions ==
    { <<"1", ".", "2", ".", "3">>, <<"1", ".", "0", "5", ".", "1">>,
      <<" ", "1", "0", ".", "0", ".", "0", " ">>, <<"1", ".", "2">>,
      <<"1", ".", "2", ".", "a", "b", "c">>, <<>> }
Args ==
    [serial_number : SerialNumbers, size : Sizes, compile_time : CompileTimes,
     edition : ArgEditions, version : ArgVersions]

Made(via, ret) == [called |-> TRUE, via |-> via, ret |-> ret]

FirmwareFrom ==
    /\ ~firmware.called
    /\ firmware' = Made("from", Firmware_from(args))
    /\ UNCHANGED <<args, firmware_copy, tokenVars, versionVars, editionVars,
                   binaryVars, resultVars>>

FirmwareDefault ==
    /\ ~firmware.called
    /\ firmware' = Made("default", Some(Firmware_default))
    /\ UNCHANGED <<args, firmware_copy, tokenVars, versionVars, editionVars,
                   binaryVars, resultVars>>

FirmwareClone ==
    /\ firmware.called /\ firmware.ret.some
    /\ ~firmware_copy.called
    /\ firmware_copy' = Returned(Firmware_clone(firmware.ret.val))
    /\ UNCHANGED <<args, firmware, tokenVars, versionVars, editionVars,
                   binaryVars, resultVars>>

InitFirmware ==
    /\ args \in Args
    /\ firmware = NotCalled
    /\ firmware_copy = NotCalled
    /\ IdleToken /\ IdleVersion /\ IdleEdition /\ IdleBinary /\ IdleResult

NextFirmware == FirmwareFrom \/ FirmwareDefault \/ FirmwareClone

SpecFirmware == InitFirmware /\ [][NextFirmware]_vars

(***************************************************************************)
(* Claims about Firmware.                                                  *)
(***************************************************************************)

\* C4: Firmware::from returns a descriptor if and only if the serial number
\* is non-empty, the size is nonzero, the compile time parses as RFC 3339,
\* the edition parses and the version parses; the descriptor then holds the
\* serial number and size unchanged and the parsers' results, and otherwise
\* nothing is returned.
C4_AssembleIff ==
    (firmware.called /\ firmware.via = "from") =>
        LET valid ==
                /\ Len(args.serial_number) > 0
                /\ args.size > 0
                /\ args.compile_time \in
                      {"2024-01-01T00:00:00Z", "2024-01-01T02:00:00+02:00"}
                /\ FirmwareEdition_from_str(args.edition).ok
                /\ FirmwareVersion_from_str(args.version).ok
        IN  /\ firmware.ret.some <=> valid
            /\ ~firmware.ret.some => firmware.ret = None
            /\ firmware.ret.some =>
                  /\ firmware.ret.val.serial_number = args.serial_number
                  /\ firmware.ret.val.size = args.size
                  /\ firmware.ret.val.compile_time = 1704067200
                  /\ Ok(firmware.ret.val.edition) =
                        FirmwareEdition_from_str(args.edition)
                  /\ Ok(firmware.ret.val.version) =
                        FirmwareVersion_from_str(args.version)
                  /\ DOMAIN firmware.ret.val =
                        {"serial_number", "size", "compile_time", "edition",
                         "version"}

\* Firmware::from was handed an empty serial number with four valid fields
\* and returned nothing.
C4_Witness ==
    /\ firmware.called /\ firmware.via = "from"
    /\ args.serial_number = <<>>
    /\ args.size > 0
    /\ parse_from_rfc3339(args.compile_time).ok
    /\ FirmwareEdition_from_str(args.edition).ok
    /\ FirmwareVersion_from_str(args.version).ok
    /\ firmware.ret = None

\* C9: every Firmware value the public interface can produce has a non-empty
\* serial number and a positive size.
C9_DescriptorInvariant ==
    /\ (firmware.called /\ firmware.ret.some) =>
          /\ firmware.ret.val.serial_number # <<>>
          /\ firmware.ret.val.size > 0
    /\ firmware_copy.called =>
          /\ firmware_copy.ret.serial_number # <<>>
          /\ firmware_copy.ret.size > 0

(***************************************************************************)
(* BinaryFirmware                                                          *)
(***************************************************************************)

\* i64::cmp
i64_cmp(a, b) == IF a < b THEN "Less" ELSE IF a = b THEN "Equal" ELSE "Greater"

BinaryFirmware_new(timestamp, serial_number) ==
    [timestamp |-> timestamp, serial_number |-> serial_number]

\* BinaryFirmware::from_firmware, with the reading of Utc::now() as `now`.
BinaryFirmware_from_firmware(f, now) ==
    [timestamp |-> now, serial_number |-> f.serial_number]

\* #[derive(PartialEq, Eq)]: both fields equal.
BinaryFirmware_eq(a, b) ==
    a.timestamp = b.timestamp /\ a.serial_number = b.serial_number

\* A slip that compares self with other instead of other with self.
BinaryFirmware_cmp_ascending(self, other) ==
    i64_cmp(self.timestamp, other.timestamp)

\* A slip that never answers Equal.
BinaryFirmware_cmp_strict(self, other) ==
    IF other.timestamp < self.timestamp THEN "Less" ELSE "Greater"

BinaryFirmware_cmp(self, other) == i64_cmp(other.timestamp, self.timestamp)

BinaryFirmware_partial_cmp(self, other) == Some(BinaryFirmware_cmp(self, other))

\* slice::sort with Ord::cmp: a stable insertion of each element after the
\* elements that do not compare Greater than it.
insert(v, x) ==
    LET greater == {i \in 1..Len(v) : BinaryFirmware_cmp(v[i], x) = "Greater"}
        at == IF greater = {} THEN Len(v) + 1
              ELSE CHOOSE i \in greater : \A j \in greater : i <= j
    IN  SubSeq(v, 1, at - 1) \o <<x>> \o SubSeq(v, at, Len(v))

RECURSIVE sort(_)
sort(v) ==
    IF v = <<>> THEN <<>>
    ELSE insert(sort(SubSeq(v, 1, Len(v) - 1)), v[Len(v)])

Timestamps == {100 * k : k \in -1..MaxTick}
RecordSerials == {<<"a">>, <<"b">>}

\* The descriptor from_firmware takes its serial number from.
SampleArgs ==
    [serial_number |-> <<"S", "N", "1">>, size |-> 1,
     compile_time |-> "2024-01-01T00:00:00Z", edition |-> PLUS,
     version |-> <<"1", ".", "2", ".", "3">>]

BinaryNew(timestamp, serial_number) ==
    /\ ~sorted.called
    /\ Len(records) < MaxRecords
    /\ records' = Append(records, BinaryFirmware_new(timestamp, serial_number))
    /\ UNCHANGED <<sorted, tokenVars, versionVars, editionVars, firmwareVars,
                   resultVars>>

BinaryFromFirmware(now) ==
    /\ ~sorted.called
    /\ Len(records) < MaxRecords
    /\ firmware.called /\ firmware.ret.some
    /\ records' =
          Append(records, BinaryFirmware_from_firmware(firmware.ret.val, now))
    /\ UNCHANGED <<sorted, tokenVars, versionVars, editionVars, firmwareVars,
                   resultVars>>

BinarySort ==
    /\ ~sorted.called
    /\ sorted' = Returned(sort(records))
    /\ UNCHANGED <<records, tokenVars, versionVars, editionVars, firmwareVars,
                   resultVars>>

InitBinary ==
    /\ records = <<>>
    /\ sorted = NotCalled
    /\ args = SampleArgs
    /\ firmware = Made("from", Firmware_from(SampleArgs))
    /\ firmware_copy = NotCalled
    /\ IdleToken /\ IdleVersion /\ IdleEdition /\ IdleResult

NextBinary ==
    \/ \E t \in Timestamps, sn \in RecordSerials : BinaryNew(t, sn)
    \/ \E now \in Timestamps : BinaryFromFirmware(now)
    \/ BinarySort

SpecBinary == InitBinary /\ [][NextBinary]_vars

(***************************************************************************)
(* Claims about BinaryFirmware.                                            *)
(***************************************************************************)
Held == {records[i] : i \in 1..Len(records)}

IsPermutation(v, w) ==
    /\ Len(v) = Len(w)
    /\ \E f \in [1..Len(v) -> 1..Len(v)] :
          /\ \A i, j \in 1..Len(v) : i # j => f[i] # f[j]
          /\ \A i \in 1..Len(v) : w[i] = v[f[i]]

Reverse(o) ==
    CASE o = "Less" -> "Greater" [] o = "Greater" -> "Less" [] o = "Equal" -> "Equal"

\* C5: the comparison of two records is the reversed comparison of their
\* timestamps (the later record is Less), whatever their serial numbers, so
\* a Vec sorted ascending by it holds the same records with non-increasing
\* timestamps.
C5_DescendingTimestamp ==
    /\ \A a, b \in Held :
          /\ a.timestamp > b.timestamp => BinaryFirmware_cmp(a, b) = "Less"
          /\ a.timestamp = b.timestamp => BinaryFirmware_cmp(a, b) = "Equal"
          /\ a.timestamp < b.timestamp => BinaryFirmware_cmp(a, b) = "Greater"
    /\ sorted.called =>
          /\ IsPermutation(records, sorted.ret)
          /\ \A i, j \in 1..Len(sorted.ret) :
                i < j => sorted.ret[i].timestamp >= sorted.ret[j].timestamp

\* {100, "a"} and {200, "b"} were pushed in that order and sorted into
\* {200, "b"}, {100, "a"}.
C5_Witness ==
    /\ records = <<BinaryFirmware_new(100, <<"a">>), BinaryFirmware_new(200, <<"b">>)>>
    /\ sorted.called
    /\ sorted.ret = <<BinaryFirmware_new(200, <<"b">>), BinaryFirmware_new(100, <<"a">>)>>

\* The comparator is total, transitive and antisymmetric up to Equal.
IsConsistentOrder ==
    /\ \A a, b \in Held :
          /\ BinaryFirmware_cmp(a, b) \in {"Less", "Equal", "Greater"}
          /\ BinaryFirmware_cmp(a, b) = Reverse(BinaryFirmware_cmp(b, a))
          /\ BinaryFirmware_partial_cmp(a, b) = Some(BinaryFirmware_cmp(a, b))
    /\ \A a, b, c \in Held :
          /\ (BinaryFirmware_cmp(a, b) # "Greater" /\ BinaryFirmware_cmp(b, c) # "Greater")
                => BinaryFirmware_cmp(a, c) # "Greater"
          /\ (BinaryFirmware_cmp(a, b) = "Equal" /\ BinaryFirmware_cmp(b, c) = "Equal")
                => BinaryFirmware_cmp(a, c) = "Equal"

\* C10 as stated: the comparator is a total order, and two records compare
\* Equal exactly when they are equal records (same timestamp and same
\* serial number).
C10_OrderAgreesWithEq ==
    /\ IsConsistentOrder
    /\ \A a, b \in Held :
          BinaryFirmware_cmp(a, b) = "Equal" <=> BinaryFirmware_eq(a, b)

\* C10 as amended: the comparator is a total preorder, two records compare
\* Equal exactly when their timestamps are equal, so equal records compare
\* Equal, and records that differ only in the serial number compare Equal
\* too.
C10_OrderByTimestampOnly ==
    /\ IsConsistentOrder
    /\ \A a, b \in Held :
          /\ BinaryFirmware_cmp(a, b) = "Equal" <=> a.timestamp = b.timestamp
          /\ BinaryFirmware_eq(a, b) => BinaryFirmware_cmp(a, b) = "Equal"

\* Two records with the same timestamp and different serial numbers are held.
C10_Witness ==
    \E a, b \in Held :
        /\ a.timestamp = b.timestamp /\ a.serial_number # b.serial_number
        /\ BinaryFirmware_cmp(a, b) = "Equal"
        /\ ~BinaryFirmware_eq(a, b)

(***************************************************************************)
(* ResultResponse                                                          *)
(*                                                                         *)
(* A response body is a text together with what serde_json::from_str makes *)
(* of it.  Texts and JSON strings are whole strings here: the crate never  *)
(* looks inside them.                                                      *)
(***************************************************************************)
JNull == [t |-> "null"]
JBool(b) == [t |-> "bool", b |-> b]
JNumber(n) == [t |-> "number", n |-> n]
JString(str) == [t |-> "string", s |-> str]
JArray(items) == [t |-> "array", items |-> items]
JObject(fields) == [t |-> "object", fields |-> fields]
Field(k, v) == [k |-> k, v |-> v]

\* Value's Index<&str>: Null for a missing key and for a value that is no
\* object.
index(json, key) ==
    IF json.t = "object" /\ \E i \in 1..Len(json.fields) : json.fields[i].k = key
    THEN json.fields[CHOOSE i \in 1..Len(json.fields) : json.fields[i].k = key].v
    ELSE JNull

as_bool(json) == IF json.t = "bool" THEN Some(json.b) ELSE None
as_str(json) == IF json.t = "string" THEN Some(json.s) ELSE None
as_object(json) == IF json.t = "object" THEN Some(json) ELSE None
unwrap_or(option, default) == IF option.some THEN option.val ELSE default

\* The text of a JSON value with `gap` written after every ':' and ',';
\* serde_json::to_string writes it with no gap.
RECURSIVE write(_, _)
RECURSIVE write_items(_, _)
RECURSIVE write_fields(_, _)
write(json, gap) ==
    CASE json.t = "null" -> "null"
      [] json.t = "bool" -> IF json.b THEN "true" ELSE "false"
      [] json.t = "number" -> ToString(json.n)
      [] json.t = "string" -> "\"" \o json.s \o "\""
      [] json.t = "array" -> "[" \o write_items(json.items, gap) \o "]"
      [] json.t = "object" -> "{" \o write_fields(json.fields, gap) \o "}"
write_items(items, gap) ==
    IF items = <<>> THEN ""
    ELSE IF Len(items) = 1 THEN write(items[1], gap)
    ELSE write(items[1], gap) \o "," \o gap \o write_items(Tail(items), gap)
write_fields(fields, gap) ==
    IF fields = <<>> THEN ""
    ELSE LET first == "\"" \o fields[1].k \o "\":" \o gap \o write(fields[1].v, gap)
         IN  IF Len(fields) = 1 THEN first
             ELSE first \o "," \o gap \o write_fields(Tail(fields), gap)

to_string(json) == write(json, "")

\* serde_json::from_str
from_str(body) == body.parsed

Exit(cause) == [kind |-> "exit", cause |-> cause]
Panic == [kind |-> "panic"]
Value(v) == [kind |-> "value", val |-> v]

\* A slip that takes a missing or non-boolean status for false.
parse_response_lenient(body) ==
    IF body.text = "" THEN Exit("response is empty!")
    ELSE LET json_result == from_str(body)
         IN  IF ~json_result.ok THEN Exit("invalid json error")
         ELSE LET json == json_result.val
                  data_value == index(json, "data")
              IN  Value([response |-> body.text,
                         ok_or_fail |-> unwrap_or(as_bool(index(json, "status")), FALSE),
                         message |-> unwrap_or(as_str(index(json, "message")), ""),
                         data |-> IF as_object(data_value).some
                                  THEN to_string(as_object(data_value).val)
                                  ELSE ""])

\* ResultResponse::parse_response on the ResultResponse that new built: the
\* process exits, the thread panics, or the fields are filled in.
parse_response(body) ==
    IF body.text = "" THEN Exit("response is empty!")
    ELSE LET json_result == from_str(body)
         IN  IF ~json_result.ok THEN Exit("invalid json error")
         ELSE LET json == json_result.val
                  status == as_bool(index(json, "status"))
                  data_value == index(json, "data")
              IN  IF ~status.some THEN Panic
                  ELSE Value([response |-> body.text,
                              ok_or_fail |-> status.val,
                              message |-> unwrap_or(as_str(index(json, "message")), ""),
                              data |-> IF as_object(data_value).some
                                       THEN to_string(as_object(data_value).val)
                                       ELSE ""])

ResultResponse_new(body) == parse_response(body)

\* ResultResponse::from_result: `transport` is how the request ended.
from_result(transport, body) ==
    IF transport # "ok" THEN Exit("cannot unpack response!")
    ELSE ResultResponse_new(body)

is_ok(self) == self.ok_or_fail
is_failed(self) == ~self.ok_or_fail
get_message(self) == Value(self.message)
get_data(self) == self.data

\* if_failed: which callback ran, and with what.
if_failed(self, has_or_else) ==
    IF is_failed(self) THEN [ran |-> "consume", with |-> self.message]
    ELSE IF has_or_else THEN [ran |-> "or_else"]
    ELSE [ran |-> "nothing"]

\* The JSON values the bodies are written from.
FieldValues ==
    { JNull, JBool(TRUE), JBool(FALSE), JNumber(1), JString("bad"), JString(""),
      JArray(<<JNumber(1)>>), JObject(<<>>), JObject(<<Field("x", JNumber(1))>>) }
Absent == [t |-> "absent"]
EnvelopeOf(status, message, data) ==
    JObject(SelectSeq(<<Field("status", status), Field("message", message),
                        Field("data", data)>>,
                      LAMBDA f : f.v # Absent))
Envelopes ==
    { EnvelopeOf(st, m, d) : st \in FieldValues \cup {Absent},
                             m \in FieldValues \cup {Absent},
                             d \in FieldValues \cup {Absent} }
JsonValues == Envelopes \cup (FieldValues \ {JObject(<<>>)})
Bodies ==
    { [text |-> "", parsed |-> Err("EOF while parsing a value")],
      [text |-> "not json", parsed |-> Err("expected ident")],
      [text |-> "{\"status\":", parsed |-> Err("EOF while parsing a value")] }
    \cup { [text |-> write(v, gap), parsed |-> Ok(v)] :
              v \in JsonValues, gap \in {"", " "} }

Observed(fn, ret) == [called |-> TRUE, fn |-> fn, ret |-> ret]

ResultNew ==
    /\ ~result.called
    /\ result' = Made("new", ResultResponse_new(response))
    /\ UNCHANGED <<response, observed, tokenVars, versionVars, editionVars,
                   firmwareVars, binaryVars>>

ResultFromResult(transport) ==
    /\ ~result.called
    /\ result' = Made(transport, from_result(transport, response))
    /\ UNCHANGED <<response, observed, tokenVars, versionVars, editionVars,
                   firmwareVars, binaryVars>>

HasValue == result.called /\ result.ret.kind = "value" /\ ~observed.called

IsOk ==
    /\ HasValue
    /\ observed' = Observed("is_ok", is_ok(result.ret.val))
    /\ UNCHANGED <<response, result, tokenVars, versionVars, editionVars,
                   firmwareVars, binaryVars>>

IsFailed ==
    /\ HasValue
    /\ observed' = Observed("is_failed", is_failed(result.ret.val))
    /\ UNCHANGED <<response, result, tokenVars, versionVars, editionVars,
                   firmwareVars, binaryVars>>

GetMessage ==
    /\ HasValue
    /\ observed' = Observed("get_message", get_message(result.ret.val))
    /\ UNCHANGED <<response, result, tokenVars, versionVars, editionVars,
                   firmwareVars, binaryVars>>

GetData ==
    /\ HasValue
    /\ observed' = Observed("get_data", get_data(result.ret.val))
    /\ UNCHANGED <<response, result, tokenVars, versionVars, editionVars,
                   firmwareVars, binaryVars>>

IfFailed(has_or_else) ==
    /\ HasValue
    /\ observed' = Observed("if_failed", if_failed(result.ret.val, has_or_else))
    /\ UNCHANGED <<response, result, tokenVars, versionVars, editionVars,
                   firmwareVars, binaryVars>>

InitResult ==
    /\ response \in Bodies
    /\ result = NotCalled
    /\ observed = NotCalled
    /\ IdleToken /\ IdleVersion /\ IdleEdition /\ IdleFirmware /\ IdleBinary

NextResult ==
    \/ ResultNew
    \/ \E transport \in {"ok", "request error", "body error"} :
          ResultFromResult(transport)
    \/ IsOk
    \/ IsFailed
    \/ GetMessage
    \/ GetData
    \/ \E has_or_else \in BOOLEAN : IfFailed(has_or_else)

SpecResult == InitResult /\ [][NextResult]_vars

(***************************************************************************)
(* Claims about ResultResponse.                                            *)
(***************************************************************************)

\* The value of a field of the body's JSON object, Absent when the body is
\* no JSON object or the object has no such field.
FieldOf(key) ==
    IF response.parsed.ok /\ response.parsed.val.t = "object"
    THEN LET fields == response.parsed.val.fields
             at == {i \in 1..Len(fields) : fields[i].k = key}
         IN  IF at = {} THEN Absent ELSE fields[CHOOSE i \in at : TRUE].v
    ELSE Absent

\* C3: ResultResponse::new returns a value only when the text is non-empty,
\* parses as JSON and is an object whose status is a boolean, and otherwise
\* ends the process or panics; the value has succeeded = status, message =
\* the message field if it is a string and "" otherwise, data = the compact
\* text of the data field if it is an object and "" otherwise.
C3_DecodeOutcome ==
    (result.called /\ result.via = "new") =>
        LET status == FieldOf("status")
            message == FieldOf("message")
            data == FieldOf("data")
            r == result.ret.val
        IN  /\ result.ret.kind = "value" <=>
                  (response.text # "" /\ response.parsed.ok /\ status.t = "bool")
            /\ result.ret.kind # "value" => result.ret.kind \in {"exit", "panic"}
            /\ result.ret.kind = "value" =>
                  /\ r.ok_or_fail = status.b
                  /\ r.message = (IF message.t = "string" THEN message.s ELSE "")
                  /\ data.t # "object" => r.data = ""
                  /\ data = JObject(<<>>) => r.data = "{}"
                  /\ data = JObject(<<Field("x", JNumber(1))>>) => r.data = "{\"x\":1}"
                  /\ data.t = "object" => r.data = to_string(data)

\* A body written with gaps, status true and data {"x": 1}, was decoded to
\* succeeded, an empty message and the compact data.
C3_Witness ==
    /\ response.text = "{\"status\": true, \"data\": {\"x\": 1}}"
    /\ result.called /\ result.via = "new"
    /\ result.ret.kind = "value"
    /\ result.ret.val.ok_or_fail
    /\ result.ret.val.message = ""
    /\ result.ret.val.data = "{\"x\":1}"

\* C8: get_message yields the message only when the result is failed, and
\* panics when it is ok.
C8_MessageOnlyWhenFailed ==
    (observed.called /\ observed.fn = "get_message" /\ is_ok(result.ret.val))
        => observed.ret = Panic

====
